---- MODULE Spec2Model ----
(***************************************************************************)
(* The HTTP-CONNECT egress flows of g3proxy:                               *)
(*   ProxyHttpEscaper      (escape/proxy_http/http_connect/mod.rs)         *)
(*   ProxyFloatHttpsPeer   (escape/proxy_float/peer/https/http_connect)    *)
(* One behaviour is one call of http_connect_new_tcp_connection            *)
(* (flow = "tcp") or http_connect_new_tls_connection (flow = "tls"),       *)
(* followed, after a success, by the caller's reads on the returned        *)
(* reader.  The two impls have the same code except where noted.           *)
(*                                                                         *)
(* Bytes the peer sends are numbered 1, 2, 3, ... in wire order: bytes     *)
(* 1..HdrLen are the CONNECT response header, the following ones belong    *)
(* to the tunnelled stream.                                                *)
(***************************************************************************)
EXTENDS Integers, Sequences, FiniteSets, TLC

\* ---- bounds of the model
MaxUsers == 2                \* per-user stats fetched for a task: 0..MaxUsers
MaxResidual == 2             \* bytes BufReader may hold past the header
MaxChunk == 2                \* bytes one socket read may return
MaxWritten == 2              \* bytes the caller writes in a behaviour
MaxPool == 2                 \* largest value given to --connection-pool
CounterBits == 2             \* width of a counter (u64 in the source)
MaxIncrements == 2           \* counter increments in a behaviour
MaxTasks == 1                \* tasks of the server alive at a time
MaxYamlKeys == 2             \* entries of the yaml map given to parse_yaml
MaxYamlValue == 2            \* largest integer value in the yaml map
MaxWire == 3                 \* tunnelled bytes the peer sends in a behaviour
HdrLen == 1                  \* wire length of the CONNECT response header
PeerNegotiationTimeout == 2  \* config.peer_negotiation_timeout, in ticks
HandshakeTimeout == 2        \* tls_config.handshake_timeout, in ticks

VARIABLES
    escaper,      \* which impl runs: "ProxyHttp" or "FloatHttps"
    flow,         \* entry point: "tcp" or "tls"
    nUsers,       \* length of fetch_user_upstream_io_stats(task_notes)
    passProxyUserid, \* config.pass_proxy_userid
    hasRawUserName,  \* task_notes.raw_user_name() is Some
    appendHeaders,   \* config.append_http_headers
    pc,           \* await point / statement the call has reached
    result,       \* "Pending", "Ok", "Cancelled" or the TcpConnectError kind
    sock,         \* the connection to the proxy: "none", "open", "closed"
    negTimer,     \* ticks since tokio::time::timeout(peer_negotiation_timeout) was armed
    dialTicks,    \* ticks that passed while the call was dialing
    negotiateTicks, \* ticks that passed while the CONNECT exchange was pending
    hsTimer,      \* ticks since tokio::time::timeout(handshake_timeout) was armed
    sockPos,      \* number of wire bytes read from the connection so far
    buf,          \* BufReader's internal buffer: wire bytes read but not consumed
    residual,     \* K: bytes buffered past the header when recv returned
    tlsIn,        \* wire bytes the origin TLS engine has consumed, in order
    delivered,    \* bytes delivered to the caller's reader
    taskRead,     \* task_stats read bytes
    userIn,       \* per-user io.tcp in_bytes, one per fetched user stats
    logs,         \* records handed to EscapeLogForTlsHandshake::log
    dials,        \* calls of tcp_new_connection / tls_handshake_with
    connectSent,  \* calls of HttpConnectRequest::send
    tlsAttempts,  \* calls of SslConnector::connect
    events,       \* the phases that completed, in order, each with its outcome
    req,          \* the CONNECT request handed to send: None before
    esc,          \* escaper stats (self.stats): tcp.io in and out bytes
    taskWrite,    \* task_stats write bytes
    userOut,      \* per-user io.tcp out_bytes
    written,      \* bytes the caller wrote to the returned writer
    \* ---- g3bench h3 target options (target/h3/opts.rs)
    h3cli,        \* the command line given to the h3 target
    h3pc,         \* statement the option handling has reached
    h3url,        \* the Url parsed from the uri argument
    h3args,       \* the BenchH3Args being built
    h3ret,        \* "Pending", "Ok" or the error the option handling ended with
    h3peer,       \* the selected peer: "answers" or "silent"
    h3elapsed,    \* seconds since the QUIC connect was started
    h3conn,       \* "Pending", "Ok" or the error new_h3_connection ended with
    \* ---- PlainQuicPortConfig::diff_action (config/server/plain_quic_port.rs)
    diffSelf,     \* self: the running PlainQuicPortConfig
    diffNew,      \* new: the AnyServerConfig it is compared with
    diffPc,       \* statement diff_action has reached
    diffFlags,    \* flags.bits()
    diffRet,      \* the ServerConfigDiffAction returned
    \* ---- server metrics (stat/metrics/server.rs), for one server
    stCounter,    \* the server's counters (u64 atomics), at the model's width
    stTotal,      \* per counter, the increments ever made to it
    stIncrs,      \* increments made in this behaviour
    stServerAlive, \* the server is registered in crate::serve and holds its stats
    stTaskRefs,   \* tasks holding a clone of the ArcServerStats
    stRegistered, \* SERVER_STATS_MAP has the entry of the server's stat_id
    stSnap,       \* the ServerSnapshot of that entry
    stEmitted,    \* per counter, the sum of the deltas sent to statsd
    stRemoved,    \* the entry was removed from SERVER_STATS_MAP
    stListenRegistered, \* LISTEN_STATS_MAP has the entry of the server
    serverLock,   \* holder of the SERVER_STATS_MAP mutex: "free", "sync", "emit"
    listenLock,   \* holder of the LISTEN_STATS_MAP mutex
    syncPc,       \* statement the thread in sync_stats has reached
    emitPc,       \* statement the thread in emit_stats has reached
    \* ---- UnaidedRuntimeConfig::parse_yaml (g3-runtime/src/unaided/yaml.rs)
    yamlFeature,  \* the build has feature openssl-async-job
    yamlV,        \* v: the Yaml value given to parse_yaml
    yamlIdx,      \* index of the next entry foreach_kv hands to the closure
    yamlConfig,   \* config: the UnaidedRuntimeConfig being filled
    yamlPc,       \* statement parse_yaml has reached
    yamlRet       \* None, or what parse_yaml returned

\* the variables of the CONNECT flows
connVars == <<escaper, flow, nUsers, passProxyUserid, hasRawUserName,
              appendHeaders, pc, result, sock, negTimer, dialTicks,
              negotiateTicks, hsTimer,
              sockPos, buf, residual, tlsIn, delivered, taskRead, userIn, logs,
              dials, connectSent, tlsAttempts, events, req, esc, taskWrite,
              userOut, written>>

\* the variables of the other specifications, which the CONNECT flows leave alone
h3quicVars == <<h3peer, h3elapsed, h3conn>>
h3Vars == <<h3cli, h3pc, h3url, h3args, h3ret, h3quicVars>>
diffVars == <<diffSelf, diffNew, diffPc, diffFlags, diffRet>>
stCtrVars == <<stCounter, stTotal, stIncrs>>
stRefVars == <<stServerAlive, stTaskRefs>>
stMapVars == <<stRegistered, stSnap, stEmitted, stRemoved>>
stLockVars == <<serverLock, listenLock>>
statsVars == <<stCtrVars, stRefVars, stMapVars, stListenRegistered, stLockVars,
               syncPc, emitPc>>
yamlVars == <<yamlFeature, yamlV, yamlIdx, yamlConfig, yamlPc, yamlRet>>
nonConnVars == <<h3Vars, diffVars, statsVars, yamlVars>>
nonH3Vars == <<connVars, diffVars, statsVars, yamlVars>>
nonDiffVars == <<connVars, h3Vars, statsVars, yamlVars>>
nonStatsVars == <<connVars, h3Vars, diffVars, yamlVars>>
nonYamlVars == <<connVars, h3Vars, diffVars, statsVars>>

vars == <<connVars, nonConnVars>>

cfgVars == <<escaper, flow, nUsers, passProxyUserid, hasRawUserName, appendHeaders>>
writeVars == <<taskWrite, userOut, written>>
timerVars == <<negTimer, dialTicks, negotiateTicks, hsTimer>>
wireVars == <<sockPos, buf, residual, tlsIn>>
statVars == <<delivered, taskRead, userIn>>
histVars == <<dials, connectSent, tlsAttempts>>

Escapers == {"ProxyHttp", "FloatHttps"}
Flows == {"tcp", "tls"}
Users == 1..nUsers

\* errors of the dial step (tcp_new_connection / tls_handshake_with)
DialErrors == {"ConnectTimeout", "ConnectRefused", "ConnectUnreachable"}
\* errors HttpConnectResponse::recv converts into
RecvErrors == {"NegotiationReadFailed", "NegotiationProtocolError", "NegotiationRejected"}
NegotiationErrors == RecvErrors \cup {"NegotiationWriteFailed", "NegotiationPeerTimeout"}
TlsHandshakeErrors == {"UpstreamTlsHandshakeFailed", "UpstreamTlsHandshakeTimeout"}
AllErrors == DialErrors \cup NegotiationErrors \cup TlsHandshakeErrors
                \cup {"InternalTlsClientError"}

\* await points inside tokio::time::timeout(peer_negotiation_timeout, ..)
TimedPoints == {"dial", "send", "recv"}
\* every await point of the call
SuspensionPoints == TimedPoints \cup {"handshake"}

\* Option: None, or Some(v)
None == [some |-> FALSE]
Some(v) == [some |-> TRUE, v |-> v]

\* values of config.append_http_headers
HeaderLists == {<<>>, <<"X-Via">>}

\* a completed phase and its outcome ("Ok" or what ended it)
Ev(phase, out) == [phase |-> phase, out |-> out]

\* the wire bytes from..to, in order
Bytes(from, to) == [i \in 1..(to - from + 1) |-> from + i - 1]

ConnInit ==
    /\ escaper \in Escapers
    /\ flow \in Flows
    /\ nUsers \in 0..MaxUsers
    /\ passProxyUserid \in BOOLEAN
    /\ hasRawUserName \in BOOLEAN
    /\ appendHeaders \in HeaderLists
    /\ pc = "start"
    /\ result = "Pending"
    /\ sock = "none"
    /\ negTimer = 0
    /\ dialTicks = 0
    /\ negotiateTicks = 0
    /\ hsTimer = 0
    /\ sockPos = 0
    /\ buf = <<>>
    /\ residual = 0
    /\ tlsIn = <<>>
    /\ delivered = 0
    /\ taskRead = 0
    /\ userIn = [u \in 1..nUsers |-> 0]
    /\ logs = <<>>
    /\ dials = 0
    /\ connectSent = 0
    /\ tlsAttempts = 0
    /\ events = <<>>
    /\ req = None
    /\ esc = [in |-> 0, out |-> 0]
    /\ taskWrite = 0
    /\ userOut = [u \in 1..nUsers |-> 0]
    /\ written = 0

\* no h3 command line is being handled
H3NoCli == [uri |-> [kind |-> "missing"], opts |-> <<>>, pool |-> 1, timeoutOk |-> TRUE]

H3Rest ==
    /\ h3cli = H3NoCli
    /\ h3pc = "idle"
    /\ h3url = None
    /\ h3args = None
    /\ h3ret = "Pending"
    /\ h3peer = "answers"
    /\ h3elapsed = 0
    /\ h3conn = "Pending"

\* PlainQuicPortConfig::new(None), with a name and a server set
PlainQuicPortConfigNew ==
    [name |-> "q1", position |-> "p1", listen |-> "l1", listen_in_worker |-> FALSE,
     tls_server |-> "t1", ingress_net_filter |-> None, server |-> "s1"]

\* no diff_action is being computed
DiffRest ==
    /\ diffSelf = PlainQuicPortConfigNew
    /\ diffNew = [type |-> "PlainQuicPort", config |-> PlainQuicPortConfigNew]
    /\ diffPc = "idle"
    /\ diffFlags = 0
    /\ diffRet = None

\* the counters of a server's stats and of a ServerSnapshot
Counters == {"conn_total", "task_total", "in_bytes", "out_bytes"}

\* ServerSnapshot::default()
ServerSnapshotDefault == [c \in Counters |-> 0]

\* no server is running and nothing is registered for metrics
StatsRest ==
    /\ stCounter = [c \in Counters |-> 0]
    /\ stTotal = [c \in Counters |-> 0]
    /\ stIncrs = 0
    /\ stServerAlive = FALSE
    /\ stTaskRefs = 0
    /\ stRegistered = FALSE
    /\ stSnap = ServerSnapshotDefault
    /\ stEmitted = [c \in Counters |-> 0]
    /\ stRemoved = FALSE
    /\ stListenRegistered = FALSE
    /\ serverLock = "free"
    /\ listenLock = "free"
    /\ syncPc = "idle"
    /\ emitPc = "idle"

\* parse_yaml is not called
YamlRest ==
    /\ yamlFeature = FALSE
    /\ yamlV = [hash |-> FALSE, kvs |-> <<>>]
    /\ yamlIdx = 1
    /\ yamlConfig = None
    /\ yamlPc = "idle"
    /\ yamlRet = None

Init == ConnInit /\ H3Rest /\ DiffRest /\ StatsRest /\ YamlRest

\* Leaving the future with r (an Err through `?`, a timeout, a drop): every
\* local is dropped, and the stream, owned by the future, is closed with it.
ReturnLeak(r) ==
    /\ result' = r
    /\ UNCHANGED sock

Return(r) ==
    /\ result' = r
    /\ sock' = IF sock = "open" THEN "closed" ELSE sock

\* HttpConnectRequest::new(&tcp_notes.upstream, &append_http_headers): a request
\* with the given headers appended and no dynamic header.
HttpConnectRequestNew(headers) == [some |-> TRUE, append |-> headers, auth |-> FALSE]

\* req.append_dyn_header(proxy_authorization_basic_pass(name))
AppendProxyAuthorization(r) == [r EXCEPT !.auth = TRUE]

\* The request handed to send.  ProxyHttp adds the Proxy-Authorization line
\* when config.pass_proxy_userid is set and the task has a raw user name;
\* FloatHttps has no such step.
BuildRequestForAnyUser ==
    IF escaper = "ProxyHttp" /\ hasRawUserName
    THEN AppendProxyAuthorization(HttpConnectRequestNew(appendHeaders))
    ELSE HttpConnectRequestNew(appendHeaders)

BuildRequest ==
    IF escaper = "ProxyHttp" /\ passProxyUserid /\ hasRawUserName
    THEN AppendProxyAuthorization(HttpConnectRequestNew(appendHeaders))
    ELSE HttpConnectRequestNew(appendHeaders)

\* The call is entered: the timeout is armed around the whole of
\* http_connect_tcp_connect_to, whose first statement starts the dial.
Call ==
    /\ result = "Pending"
    /\ pc = "start"
    /\ pc' = "dial"
    /\ dials' = dials + 1
    /\ negTimer' = 0
    /\ UNCHANGED <<cfgVars, nonConnVars, esc, writeVars, events, req,
                   result, sock, dialTicks, negotiateTicks, hsTimer,
                   wireVars, statVars, logs, connectSent, tlsAttempts>>

\* One tick passes while the timed future is pending.
TickNegotiation ==
    /\ result = "Pending"
    /\ pc \in TimedPoints
    /\ negTimer < PeerNegotiationTimeout
    /\ negTimer' = negTimer + 1
    /\ dialTicks' = IF pc = "dial" THEN dialTicks + 1 ELSE dialTicks
    /\ negotiateTicks' = IF pc = "dial" THEN negotiateTicks ELSE negotiateTicks + 1
    /\ UNCHANGED <<cfgVars, nonConnVars, esc, writeVars, events, req,
                   pc, result, sock, hsTimer, wireVars, statVars, logs,
                   histVars>>

NegotiationTimeoutEarly ==
    /\ result = "Pending"
    /\ pc \in TimedPoints
    /\ negTimer <= PeerNegotiationTimeout
    /\ Return("NegotiationPeerTimeout")
    /\ events' = Append(events, Ev(pc, "NegotiationPeerTimeout"))
    /\ UNCHANGED <<cfgVars, nonConnVars, esc, writeVars, req,
                   pc, timerVars, wireVars, statVars, logs, histVars>>

\* The timer fires before the wrapped future completed: the future is dropped.
NegotiationTimeout ==
    /\ result = "Pending"
    /\ pc \in TimedPoints
    /\ negTimer = PeerNegotiationTimeout
    /\ Return("NegotiationPeerTimeout")
    /\ events' = Append(events, Ev(pc, "NegotiationPeerTimeout"))
    /\ UNCHANGED <<cfgVars, nonConnVars, esc, writeVars, req,
                   pc, timerVars, wireVars, statVars, logs, histVars>>

\* self.tcp_new_connection(..).await? (ProxyHttp), self.tls_handshake_with(..).await?
\* (FloatHttps) returns a stream.
DialOkRearm ==
    /\ result = "Pending"
    /\ pc = "dial"
    /\ sock' = "open"
    /\ pc' = "send"
    /\ negTimer' = 0
    /\ events' = Append(events, Ev("dial", "Ok"))
    /\ UNCHANGED <<cfgVars, nonConnVars, esc, writeVars, req,
                   result, dialTicks, negotiateTicks, hsTimer, wireVars,
                   statVars, logs, histVars>>

DialOk ==
    /\ result = "Pending"
    /\ pc = "dial"
    /\ sock' = "open"
    /\ pc' = "send"
    /\ events' = Append(events, Ev("dial", "Ok"))
    /\ UNCHANGED <<cfgVars, nonConnVars, esc, writeVars, req,
                   result, timerVars, wireVars, statVars, logs, histVars>>

\* ... or an error, which `?` returns as it is.
DialErrMapped ==
    /\ result = "Pending"
    /\ pc = "dial"
    /\ \E e \in DialErrors :
         /\ Return("NegotiationWriteFailed")
         /\ events' = Append(events, Ev("dial", e))
    /\ UNCHANGED <<cfgVars, nonConnVars, esc, writeVars, req,
                   pc, timerVars, wireVars, statVars, logs, histVars>>

DialErr ==
    /\ result = "Pending"
    /\ pc = "dial"
    /\ \E e \in DialErrors :
         /\ Return(e)
         /\ events' = Append(events, Ev("dial", e))
    /\ UNCHANGED <<cfgVars, nonConnVars, esc, writeVars, req,
                   pc, timerVars, wireVars, statVars, logs, histVars>>

\* req.send(&mut stream).await
SendOk ==
    /\ result = "Pending"
    /\ pc = "send"
    /\ connectSent' = connectSent + 1
    /\ pc' = "recv"
    /\ events' = Append(events, Ev("send", "Ok"))
    /\ req' = BuildRequest
    /\ UNCHANGED <<cfgVars, nonConnVars, esc, writeVars,
                   result, sock, timerVars, wireVars, statVars, logs,
                   dials, tlsAttempts>>

SendErrIgnored ==
    /\ result = "Pending"
    /\ pc = "send"
    /\ connectSent' = connectSent + 1
    /\ pc' = "recv"
    /\ events' = Append(events, Ev("send", "NegotiationWriteFailed"))
    /\ req' = BuildRequest
    /\ UNCHANGED <<cfgVars, nonConnVars, esc, writeVars,
                   result, sock, timerVars, wireVars, statVars, logs, dials,
                   tlsAttempts>>

SendErr ==
    /\ result = "Pending"
    /\ pc = "send"
    /\ connectSent' = connectSent + 1
    /\ Return("NegotiationWriteFailed")
    /\ events' = Append(events, Ev("send", "NegotiationWriteFailed"))
    /\ req' = BuildRequest
    /\ UNCHANGED <<cfgVars, nonConnVars, esc, writeVars,
                   pc, timerVars, wireVars, statVars, logs, dials,
                   tlsAttempts>>

\* HttpConnectResponse::recv(&mut buf_stream, max).await: the header is parsed
\* out of the BufReader, whose fills may have read K bytes past it.
RecvOkCrediting ==
    /\ result = "Pending"
    /\ pc = "recv"
    /\ \E K \in 0..MaxResidual :
         /\ sockPos' = HdrLen + K
         /\ buf' = Bytes(HdrLen + 1, HdrLen + K)
         /\ residual' = K
         /\ taskRead' = taskRead + K
         /\ userIn' = [u \in Users |-> userIn[u] + K]
    /\ pc' = "negotiated"
    /\ events' = Append(events, Ev("recv", "Ok"))
    /\ UNCHANGED <<cfgVars, nonConnVars, esc, writeVars, req,
                   result, sock, timerVars, tlsIn, delivered, logs,
                   histVars>>

RecvOk ==
    /\ result = "Pending"
    /\ pc = "recv"
    /\ \E K \in 0..MaxResidual :
         /\ sockPos' = HdrLen + K
         /\ buf' = Bytes(HdrLen + 1, HdrLen + K)
         /\ residual' = K
    /\ pc' = "negotiated"
    /\ events' = Append(events, Ev("recv", "Ok"))
    /\ UNCHANGED <<cfgVars, nonConnVars, esc, writeVars, req,
                   result, sock, timerVars, tlsIn, statVars, logs,
                   histVars>>

RecvErrRetry ==
    /\ result = "Pending"
    /\ pc = "recv"
    /\ pc' = "start"
    /\ sock' = "closed"
    /\ events' = Append(events, Ev("recv", "NegotiationReadFailed"))
    /\ UNCHANGED <<cfgVars, nonConnVars, esc, writeVars, req,
                   result, timerVars, wireVars, statVars, logs, histVars>>

RecvErr ==
    /\ result = "Pending"
    /\ pc = "recv"
    /\ \E e \in RecvErrors :
         /\ Return(e)
         /\ events' = Append(events, Ev("recv", e))
    /\ UNCHANGED <<cfgVars, nonConnVars, esc, writeVars, req,
                   pc, timerVars, wireVars, statVars, logs, histVars>>

\* The caller drops the pending future at an await point.
CancelDetached ==
    /\ result = "Pending"
    /\ pc \in SuspensionPoints
    /\ ReturnLeak("Cancelled")
    /\ events' = Append(events, Ev(pc, "Cancelled"))
    /\ UNCHANGED <<cfgVars, nonConnVars, esc, writeVars, req,
                   pc, timerVars, wireVars, statVars, logs, histVars>>

Cancel ==
    /\ result = "Pending"
    /\ pc \in SuspensionPoints
    /\ Return("Cancelled")
    /\ events' = Append(events, Ev(pc, "Cancelled"))
    /\ UNCHANGED <<cfgVars, nonConnVars, esc, writeVars, req,
                   pc, timerVars, wireVars, statVars, logs, histVars>>

\* ---- TCP through CONNECT: http_connect_new_tcp_connection

\* let r_buffer_size = buf_stream.buffer().len() as u64;
RBufferSizeWithHeader == HdrLen + Len(buf)

RBufferSize == Len(buf)

\* task_stats.add_read_bytes(n); for s in &user_stats { s.io.tcp.add_in_bytes(n) }
AddReadBuffered(n) ==
    /\ taskRead' = taskRead + n
    /\ userIn' = [u \in Users |-> userIn[u] + n]

\* impl LimitedReaderStats: self.tcp.io.add_in_bytes(size)
EscaperAddReadBytes(s, size) == [s EXCEPT !.in = @ + size]

\* impl LimitedWriterStats: self.tcp.io.add_out_bytes(size)
EscaperAddWriteBytesAsRead(s, size) == [s EXCEPT !.in = @ + size]

EscaperAddWriteBytes(s, size) == [s EXCEPT !.out = @ + size]

\* The sinks of the wrapper stats ProxyHttp's TCP flow builds:
\* TcpConnectRemoteWrapperStats::new(&self.stats, task_stats) and
\* push_user_io_stats(user_stats).
ProxyHttpSinksWithoutEscaper == {"task", "user"}

ProxyHttpSinks == {"escaper", "task", "user"}

\* The sinks of TcpConnectionTaskRemoteStatsWrapper::new(task_stats) with
\* push_other_stats(user stats): FloatHttps and both TLS flows.
TaskUserSinks == {"task", "user"}

\* the sinks of the wrapper stats the returned halves carry
WrapperSinks ==
    IF escaper = "ProxyHttp" /\ flow = "tcp" THEN ProxyHttpSinks ELSE TaskUserSinks

\* add_read_bytes of the wrapper stats, as the LimitedStream / LimitedReader
\* call it after a read: the transferred length is added to every sink.
WrapperAddReadBytes(n) ==
    /\ esc' = IF "escaper" \in WrapperSinks THEN EscaperAddReadBytes(esc, n) ELSE esc
    /\ taskRead' = IF "task" \in WrapperSinks THEN taskRead + n ELSE taskRead
    /\ userIn' = [u \in Users |-> IF "user" \in WrapperSinks THEN userIn[u] + n
                                                            ELSE userIn[u]]

\* add_write_bytes of the wrapper stats, as the LimitedStream / LimitedWriter
\* call it after a write.
WrapperAddWriteBytes(n) ==
    /\ esc' = IF "escaper" \in WrapperSinks THEN EscaperAddWriteBytes(esc, n) ELSE esc
    /\ taskWrite' = IF "task" \in WrapperSinks THEN taskWrite + n ELSE taskWrite
    /\ userOut' = [u \in Users |-> IF "user" \in WrapperSinks THEN userOut[u] + n
                                                             ELSE userOut[u]]

\* The timed connect returned Ok(buf_stream): the buffered bytes are added to
\* the task and user stats, the stats are attached to the stream (ProxyHttp:
\* reset_stats of the LimitedStream under the BufReader; FloatHttps: a
\* LimitedReader around the ReadHalf of the BufReader), the halves returned.
AccountTcp ==
    /\ result = "Pending"
    /\ flow = "tcp"
    /\ pc = "negotiated"
    /\ AddReadBuffered(RBufferSize)
    /\ pc' = "done"
    /\ result' = "Ok"
    /\ events' = Append(events, Ev("account", "Ok"))
    /\ UNCHANGED <<cfgVars, nonConnVars, esc, writeVars, req,
                   sock, timerVars, wireVars, delivered, logs, histVars>>

\* A read of the caller on the reader ProxyHttp returned,
\* ReadHalf<BufReader<LimitedStream<TcpStream>>>: buffered bytes are handed out
\* first; with an empty buffer the BufReader reads m bytes from the
\* LimitedStream, which adds m to the stats set by reset_stats, and hands the
\* first n of them to the caller.
CallerReadProxyHttp ==
    /\ result = "Ok"
    /\ flow = "tcp"
    /\ escaper = "ProxyHttp"
    /\ \/ /\ buf # <<>>
          /\ \E n \in 1..Len(buf) :
               /\ delivered' = delivered + n
               /\ buf' = SubSeq(buf, n + 1, Len(buf))
          /\ UNCHANGED <<sockPos, taskRead, userIn, esc>>
       \/ /\ buf = <<>>
          /\ \E m \in 1..MaxChunk : \E n \in 1..m :
               /\ sockPos + m <= HdrLen + MaxWire
               /\ sockPos' = sockPos + m
               /\ WrapperAddReadBytes(m)
               /\ delivered' = delivered + n
               /\ buf' = Bytes(sockPos + n + 1, sockPos + m)
    /\ UNCHANGED <<cfgVars, nonConnVars, writeVars, events, req,
                   pc, result, sock, timerVars, residual, tlsIn, logs,
                   histVars>>

\* A read of the caller on the reader FloatHttps returned,
\* LimitedReader<ReadHalf<BufReader<tls stream>>>: the LimitedReader adds the
\* length of every read it hands out, buffered or not, to its stats.
CallerReadFloatHttps ==
    /\ result = "Ok"
    /\ flow = "tcp"
    /\ escaper = "FloatHttps"
    /\ \/ /\ buf # <<>>
          /\ \E n \in 1..Len(buf) :
               /\ delivered' = delivered + n
               /\ buf' = SubSeq(buf, n + 1, Len(buf))
               /\ WrapperAddReadBytes(n)
          /\ UNCHANGED sockPos
       \/ /\ buf = <<>>
          /\ \E m \in 1..MaxChunk : \E n \in 1..m :
               /\ sockPos + m <= HdrLen + MaxWire
               /\ sockPos' = sockPos + m
               /\ WrapperAddReadBytes(n)
               /\ delivered' = delivered + n
               /\ buf' = Bytes(sockPos + n + 1, sockPos + m)
    /\ UNCHANGED <<cfgVars, nonConnVars, writeVars, events, req,
                   pc, result, sock, timerVars, residual, tlsIn, logs,
                   histVars>>

\* ---- TLS through CONNECT: http_connect_tls_connect_to

\* tls_config.build_ssl(tls_name, port).map_err(InternalTlsClientError)?
BuildSslOk ==
    /\ result = "Pending"
    /\ flow = "tls"
    /\ pc = "negotiated"
    /\ pc' = "ssl_built"
    /\ events' = Append(events, Ev("build_ssl", "Ok"))
    /\ UNCHANGED <<cfgVars, nonConnVars, esc, writeVars, req,
                   result, sock, timerVars, wireVars, statVars, logs,
                   histVars>>

BuildSslErr ==
    /\ result = "Pending"
    /\ flow = "tls"
    /\ pc = "negotiated"
    /\ Return("InternalTlsClientError")
    /\ events' = Append(events, Ev("build_ssl", "InternalTlsClientError"))
    /\ UNCHANGED <<cfgVars, nonConnVars, esc, writeVars, req,
                   pc, timerVars, wireVars, statVars, logs, histVars>>

\* buf_stream.into_inner(): the stream under the BufReader; what the BufReader
\* had buffered is dropped with it.
IntoInner == <<>>

\* SslConnector::new(ssl, buf_stream.into_inner()), then connector.connect()
\* is started under tokio::time::timeout(tls_config.handshake_timeout, ..).
SslConnectorNewCrediting ==
    /\ result = "Pending"
    /\ pc = "ssl_built"
    /\ buf' = IntoInner
    /\ pc' = "handshake"
    /\ hsTimer' = 0
    /\ tlsAttempts' = tlsAttempts + 1
    /\ AddReadBuffered(Len(buf))
    /\ events' = Append(events, Ev("connector", "Ok"))
    /\ UNCHANGED <<cfgVars, nonConnVars, esc, writeVars, req,
                   result, sock, negTimer, dialTicks, negotiateTicks,
                   sockPos, residual, tlsIn, delivered, logs, dials, connectSent>>

SslConnectorNewOk ==
    /\ result = "Pending"
    /\ pc = "ssl_built"
    /\ buf' = IntoInner
    /\ pc' = "handshake"
    /\ hsTimer' = 0
    /\ tlsAttempts' = tlsAttempts + 1
    /\ events' = Append(events, Ev("connector", "Ok"))
    /\ UNCHANGED <<cfgVars, nonConnVars, esc, writeVars, req,
                   result, sock, negTimer, dialTicks, negotiateTicks,
                   sockPos, residual, tlsIn, statVars, logs, dials, connectSent>>

SslConnectorNewErr ==
    /\ result = "Pending"
    /\ pc = "ssl_built"
    /\ buf' = IntoInner
    /\ Return("InternalTlsClientError")
    /\ events' = Append(events, Ev("connector", "InternalTlsClientError"))
    /\ UNCHANGED <<cfgVars, nonConnVars, esc, writeVars, req,
                   pc, timerVars, sockPos, residual, tlsIn, statVars,
                   logs, histVars>>

TickHandshake ==
    /\ result = "Pending"
    /\ pc = "handshake"
    /\ hsTimer < HandshakeTimeout
    /\ hsTimer' = hsTimer + 1
    /\ UNCHANGED <<cfgVars, nonConnVars, esc, writeVars, events, req,
                   pc, result, sock, negTimer, dialTicks, negotiateTicks,
                   wireVars, statVars, logs, histVars>>

\* The handshake reads the next m bytes of the stream the connector was given.
TlsRead ==
    /\ result = "Pending"
    /\ pc = "handshake"
    /\ \E m \in 1..MaxChunk :
         /\ sockPos + m <= HdrLen + MaxWire
         /\ sockPos' = sockPos + m
         /\ tlsIn' = tlsIn \o Bytes(sockPos + 1, sockPos + m)
    /\ UNCHANGED <<cfgVars, nonConnVars, esc, writeVars, events, req,
                   pc, result, sock, timerVars, buf, residual, statVars,
                   logs, histVars>>

\* the tls_application argument of http_connect_new_tls_connection's call
TlsApplicationOther == "HttpForward"

TlsApplicationArg == "TcpStream"

\* EscapeLogForTlsHandshake { .., tls_application }.log(&self.escape_logger, &e)
LogTlsHandshake(reason) ==
    logs' = Append(logs, [tls_application |-> TlsApplicationArg, reason |-> reason])

\* Ok(Ok(stream)) => Ok(stream)
HandshakeOk ==
    /\ result = "Pending"
    /\ pc = "handshake"
    /\ pc' = "tls_connected"
    /\ events' = Append(events, Ev("handshake", "Ok"))
    /\ UNCHANGED <<cfgVars, nonConnVars, esc, writeVars, req,
                   result, sock, timerVars, wireVars, statVars, logs,
                   histVars>>

\* Ok(Err(e)) => log, Err(UpstreamTlsHandshakeFailed(e))
HandshakeErr ==
    /\ result = "Pending"
    /\ pc = "handshake"
    /\ LogTlsHandshake("handshake failed")
    /\ Return("UpstreamTlsHandshakeFailed")
    /\ events' = Append(events, Ev("handshake", "UpstreamTlsHandshakeFailed"))
    /\ UNCHANGED <<cfgVars, nonConnVars, esc, writeVars, req,
                   pc, timerVars, wireVars, statVars, histVars>>

\* Err(_) => log, Err(UpstreamTlsHandshakeTimeout)
HandshakeTimedOutSilent ==
    /\ result = "Pending"
    /\ pc = "handshake"
    /\ hsTimer = HandshakeTimeout
    /\ Return("UpstreamTlsHandshakeTimeout")
    /\ events' = Append(events, Ev("handshake", "UpstreamTlsHandshakeTimeout"))
    /\ UNCHANGED <<cfgVars, nonConnVars, esc, writeVars, req,
                   pc, timerVars, wireVars, statVars, logs, histVars>>

HandshakeTimedOut ==
    /\ result = "Pending"
    /\ pc = "handshake"
    /\ hsTimer = HandshakeTimeout
    /\ LogTlsHandshake("upstream tls handshake timed out")
    /\ Return("UpstreamTlsHandshakeTimeout")
    /\ events' = Append(events, Ev("handshake", "UpstreamTlsHandshakeTimeout"))
    /\ UNCHANGED <<cfgVars, nonConnVars, esc, writeVars, req,
                   pc, timerVars, wireVars, statVars, histVars>>

\* http_connect_new_tls_connection after the `?`: the tls stream is split and
\* each half wrapped with the task and user stats; nothing is added here.
AccountTls ==
    /\ result = "Pending"
    /\ flow = "tls"
    /\ pc = "tls_connected"
    /\ pc' = "done"
    /\ result' = "Ok"
    /\ events' = Append(events, Ev("account", "Ok"))
    /\ UNCHANGED <<cfgVars, nonConnVars, esc, writeVars, req,
                   sock, timerVars, wireVars, statVars, logs, histVars>>

\* A read of the caller on LimitedReader<ReadHalf<tls stream>>: n bytes of
\* plaintext are handed out and added to the stats.
CallerReadTls ==
    /\ result = "Ok"
    /\ flow = "tls"
    /\ \E n \in 1..MaxChunk :
         /\ delivered + n <= MaxWire
         /\ delivered' = delivered + n
         /\ WrapperAddReadBytes(n)
    /\ UNCHANGED <<cfgVars, nonConnVars, writeVars, events, req,
                   pc, result, sock, timerVars, wireVars, logs, histVars>>

\* A write of the caller of n bytes on the returned writer: the LimitedStream
\* (ProxyHttp, TCP flow) or the LimitedWriter (the others) adds n to its stats.
CallerWrite ==
    /\ result = "Ok"
    /\ \E n \in 1..MaxChunk :
         /\ written + n <= MaxWritten
         /\ written' = written + n
         /\ WrapperAddWriteBytes(n)
    /\ UNCHANGED <<cfgVars, nonConnVars, pc, result, sock, timerVars, wireVars,
                   statVars, logs, histVars, events, req>>

Next ==
    \/ Call
    \/ TickNegotiation
    \/ NegotiationTimeout
    \/ DialOk
    \/ DialErr
    \/ SendOk
    \/ SendErr
    \/ RecvOk
    \/ RecvErr
    \/ Cancel
    \/ AccountTcp
    \/ CallerReadProxyHttp
    \/ CallerReadFloatHttps
    \/ BuildSslOk
    \/ BuildSslErr
    \/ SslConnectorNewOk
    \/ SslConnectorNewErr
    \/ TickHandshake
    \/ TlsRead
    \/ HandshakeOk
    \/ HandshakeErr
    \/ HandshakeTimedOut
    \/ AccountTls
    \/ CallerReadTls
    \/ CallerWrite

Spec == Init /\ [][Next]_vars

TypeOK ==
    /\ escaper \in Escapers
    /\ flow \in Flows
    /\ nUsers \in 0..MaxUsers
    /\ pc \in {"start", "dial", "send", "recv", "negotiated", "ssl_built",
               "handshake", "tls_connected", "done"}
    /\ result \in {"Pending", "Ok", "Cancelled"} \cup AllErrors
    /\ sock \in {"none", "open", "closed"}
    /\ negTimer \in 0..PeerNegotiationTimeout
    /\ hsTimer \in 0..HandshakeTimeout
    /\ Len(buf) <= MaxResidual + MaxChunk
    /\ userIn \in [Users -> Nat]
    /\ userOut \in [Users -> Nat]
    /\ req = None \/ req \in [some : {TRUE}, append : HeaderLists, auth : BOOLEAN]
    /\ esc \in [in : Nat, out : Nat]

\* ---- properties

ReadCountersAre(n) ==
    /\ taskRead = n
    /\ \A u \in Users : userIn[u] = n

\* C1: TCP through CONNECT, at the successful return and before the caller
\* has read anything: the task read counter and every per-user in_bytes
\* counter have grown by exactly the K bytes that were buffered past the
\* CONNECT response.
ResidualCreditedAtReturn ==
    (flow = "tcp" /\ result = "Ok" /\ delivered = 0 /\ sockPos = HdrLen + residual)
        => ReadCountersAre(residual)

ResidualCreditedWitness ==
    /\ flow = "tcp"
    /\ result = "Ok"
    /\ delivered = 0
    /\ residual = MaxResidual
    /\ nUsers = MaxUsers
    /\ taskRead > 0

\* C2: read-side byte conservation of a successful TCP-through-CONNECT
\* connection: whenever the buffered reader holds no undelivered byte, the
\* task counter and every per-user counter equal the number of bytes
\* delivered to the caller.
ReadByteConservation ==
    (flow = "tcp" /\ result = "Ok" /\ buf = <<>>) => ReadCountersAre(delivered)

\* The same for the ProxyHttp impl alone, whose stats sit under the BufReader.
ReadByteConservationProxyHttp ==
    (escaper = "ProxyHttp" /\ flow = "tcp" /\ result = "Ok" /\ buf = <<>>)
        => ReadCountersAre(delivered)

\* C3: TLS through CONNECT: the origin TLS engine consumes the tunnelled
\* stream from its first byte on, the residual bytes first: the i-th byte it
\* reads is the i-th byte after the CONNECT response header.
TlsConsumesResidualFirst ==
    \A i \in 1..Len(tlsIn) : tlsIn[i] = HdrLen + i

TimeoutBoundsNegotiationOnly ==
    result = "NegotiationPeerTimeout"
        => (pc \in {"send", "recv"} /\ negotiateTicks = PeerNegotiationTimeout)

\* C5 as amended: peer_negotiation_timeout bounds the dial and the CONNECT
\* exchange together: a NegotiationPeerTimeout is returned at an await point
\* of either, when the time spent dialing plus the time spent in the exchange
\* reaches the timeout.
TimeoutBoundsDialAndNegotiation ==
    result = "NegotiationPeerTimeout"
        => (pc \in TimedPoints /\ dialTicks + negotiateTicks = PeerNegotiationTimeout)

TimeoutSharedBudgetWitness ==
    /\ result = "NegotiationPeerTimeout"
    /\ pc = "recv"
    /\ dialTicks > 0
    /\ negotiateTicks < PeerNegotiationTimeout

\* C6: whenever the call has returned an error, the connection it opened is
\* closed: no socket is open that was not open before the call.
NoSocketLeakOnError ==
    result \in AllErrors => sock # "open"

NoSocketLeakWitness ==
    /\ result = "UpstreamTlsHandshakeFailed"
    /\ sock = "closed"

\* C7: when the pending future is dropped at an await point, the connection
\* is released, the task and per-user counters are as before the call, and
\* nothing of the flow runs afterwards.
CancellationSafe ==
    /\ [](result = "Cancelled" => (sock # "open" /\ ReadCountersAre(0)))
    /\ [][result = "Cancelled" => UNCHANGED vars]_vars

CancellationWitness ==
    /\ result = "Cancelled"
    /\ pc = "handshake"
    /\ sock = "closed"
    /\ residual > 0

\* C8: the origin TLS handshake ends in one of three ways: success, with no
\* failure record; UpstreamTlsHandshakeFailed with exactly one record;
\* UpstreamTlsHandshakeTimeout, at expiry of handshake_timeout, with exactly
\* one record.  No call emits more than one record.
HandshakeOutcomes ==
    /\ Len(logs) <= 1
    /\ (pc = "handshake" /\ result \notin {"Pending", "Cancelled"})
          => result \in TlsHandshakeErrors
    /\ result \in TlsHandshakeErrors => (pc = "handshake" /\ Len(logs) = 1)
    /\ result = "UpstreamTlsHandshakeTimeout" => hsTimer = HandshakeTimeout
    /\ result \notin TlsHandshakeErrors => logs = <<>>

HandshakeTimeoutWitness ==
    /\ result = "UpstreamTlsHandshakeTimeout"
    /\ Len(logs) = 1

\* C9 as stated: FloatHttps, TLS flow, the inner handshake fails: the error is
\* UpstreamTlsHandshakeFailed and the record is tagged OriginLeg.
InnerFailureTaggedOriginLeg ==
    (escaper = "FloatHttps" /\ flow = "tls" /\ result = "UpstreamTlsHandshakeFailed")
        => (Len(logs) = 1 /\ logs[1].tls_application = "OriginLeg")

\* C9 as amended: ... the error is UpstreamTlsHandshakeFailed and the record
\* carries the tag http_connect_new_tls_connection passes, TcpStream.
InnerFailureTaggedTcpStream ==
    /\ (escaper = "FloatHttps" /\ flow = "tls" /\ pc = "handshake"
            /\ result \notin {"Pending", "Cancelled", "UpstreamTlsHandshakeTimeout"})
          => result = "UpstreamTlsHandshakeFailed"
    /\ (escaper = "FloatHttps" /\ flow = "tls" /\ result = "UpstreamTlsHandshakeFailed")
          => (Len(logs) = 1 /\ logs[1].tls_application = "TcpStream")

InnerFailureWitness ==
    /\ escaper = "FloatHttps"
    /\ flow = "tls"
    /\ result = "UpstreamTlsHandshakeFailed"
    /\ logs # <<>>

\* C10: one call dials once, sends at most one CONNECT request and attempts
\* at most one origin TLS handshake; a negotiation error is returned after
\* one dial and no TLS attempt, a TLS handshake error after one dial, one
\* request and one attempt.
NoInFlowRetry ==
    /\ dials <= 1
    /\ connectSent <= 1
    /\ tlsAttempts <= 1
    /\ result \in NegotiationErrors => (dials = 1 /\ tlsAttempts = 0)
    /\ result \in TlsHandshakeErrors
          => (dials = 1 /\ connectSent = 1 /\ tlsAttempts = 1)
    /\ result \in AllErrors => pc # "start"

NoInFlowRetryWitness ==
    /\ result = "NegotiationRejected"
    /\ dials = 1
    /\ connectSent = 1

WriteCountersAre(n) ==
    /\ taskWrite = n
    /\ \A u \in Users : userOut[u] = n

\* C11: when the dial step fails with e, e is what the call returns: no
\* CONNECT request was built or sent, no origin TLS handshake was attempted
\* and no task, user or escaper counter was credited.
DialFailureSurfaced ==
    (Len(events) >= 1 /\ events[1].phase = "dial" /\ events[1].out \in DialErrors)
        => /\ result = events[1].out
           /\ Len(events) = 1
           /\ connectSent = 0
           /\ req = None
           /\ tlsAttempts = 0
           /\ ReadCountersAre(0)
           /\ WriteCountersAre(0)
           /\ esc = [in |-> 0, out |-> 0]

DialFailureWitness ==
    /\ result \in DialErrors
    /\ dials = 1
    /\ sockPos = 0

\* C12: the CONNECT request ProxyHttp hands to send carries a
\* Proxy-Authorization line iff pass_proxy_userid is set and the task has a
\* raw user name; the configured append_http_headers are on it in every case.
ProxyAuthorizationIffUserid ==
    (escaper = "ProxyHttp" /\ req # None)
        => /\ req.auth <=> (passProxyUserid /\ hasRawUserName)
           /\ req.append = appendHeaders

ProxyAuthorizationWitness ==
    /\ escaper = "ProxyHttp"
    /\ req # None
    /\ req.auth
    /\ appendHeaders # <<>>
    /\ connectSent = 1

\* C13: the task and per-user counters are touched in the accounting step or
\* later only: while the call is pending, and after every error return (a
\* rejected CONNECT included), cancellation or timeout, they are as before.
CountersUntouchedBeforeAccounting ==
    result # "Ok" => ReadCountersAre(0) /\ WriteCountersAre(0)

CountersUntouchedWitness ==
    /\ result = "NegotiationRejected"
    /\ nUsers > 0
    /\ connectSent = 1

\* the phases of a flow, in the order of its statements
PhaseOrder ==
    IF flow = "tcp"
    THEN <<"dial", "send", "recv", "account">>
    ELSE <<"dial", "send", "recv", "build_ssl", "connector", "handshake", "account">>

\* C14: the phases run strictly in sequence: every phase that ended is the
\* next one of the flow's order, every phase before the last one ended Ok (a
\* failed phase is followed by none), a CONNECT byte is sent after a
\* successful dial only, a write failure returns NegotiationWriteFailed with
\* no byte read, the origin TLS handshake starts after a successful CONNECT
\* only, and the accounting step runs after every other phase succeeded.
PhasesSequential ==
    /\ Len(events) <= Len(PhaseOrder)
    /\ \A i \in 1..Len(events) :
         /\ events[i].phase = PhaseOrder[i]
         /\ i < Len(events) => events[i].out = "Ok"
    /\ result \notin {"Pending", "Ok"} => Len(events) >= 1 /\ events[Len(events)].out = result
    /\ connectSent > 0 => events[1] = Ev("dial", "Ok")
    /\ sockPos > 0 => Len(events) >= 2 /\ events[2] = Ev("send", "Ok")
    /\ result = "NegotiationWriteFailed" => sockPos = 0 /\ events[Len(events)].phase = "send"
    /\ tlsAttempts > 0 => Len(events) >= 3 /\ events[3] = Ev("recv", "Ok")
    /\ result = "Ok" => Len(events) = Len(PhaseOrder)

PhasesSequentialWitness ==
    /\ result = "NegotiationWriteFailed"
    /\ Len(events) = 2
    /\ connectSent = 1

\* C15: whenever the TLS flow returns InternalTlsClientError (build_ssl or
\* SslConnector::new failed) a failure record was logged.
InternalTlsClientErrorLogged ==
    result = "InternalTlsClientError" => Len(logs) >= 1

\* C16: no step lowers or resets a byte counter; the escaper's in_bytes
\* changes only with a socket read, by its length and leaving out_bytes, and
\* its out_bytes only with a write, by its length and leaving in_bytes.
CountersMonotonic ==
    [][/\ taskRead' >= taskRead
       /\ taskWrite' >= taskWrite
       /\ \A u \in Users : userIn'[u] >= userIn[u] /\ userOut'[u] >= userOut[u]
       /\ esc' # esc =>
            \/ /\ sockPos' > sockPos
               /\ esc' = [in |-> esc.in + (sockPos' - sockPos), out |-> esc.out]
            \/ /\ written' > written
               /\ esc' = [in |-> esc.in, out |-> esc.out + (written' - written)]
      ]_vars

CountersMonotonicWitness ==
    /\ esc.in > 0
    /\ esc.out > 0

\* C17: on the halves ProxyHttp's TCP flow returned, every socket read of m
\* bytes adds m to the escaper's, the task's and every user's in counter, and
\* every write of w bytes adds w to their out counters.
SinksCoverThreeTiers ==
    [][(escaper = "ProxyHttp" /\ flow = "tcp" /\ result = "Ok")
         => LET m == sockPos' - sockPos
                w == written' - written
            IN  /\ esc' = [in |-> esc.in + m, out |-> esc.out + w]
                /\ taskRead' = taskRead + m
                /\ taskWrite' = taskWrite + w
                /\ \A u \in Users : /\ userIn'[u] = userIn[u] + m
                                    /\ userOut'[u] = userOut[u] + w
      ]_vars

SinksCoverThreeTiersWitness ==
    /\ escaper = "ProxyHttp"
    /\ flow = "tcp"
    /\ nUsers = MaxUsers
    /\ esc.in > 0
    /\ esc.out > 0
    /\ taskRead = residual + esc.in
    /\ \A u \in Users : userIn[u] = taskRead /\ userOut[u] = esc.out

\* C22: the timed connect returns NegotiationPeerTimeout only when
\* peer_negotiation_timeout has elapsed with the wrapped future pending at one
\* of its await points; a result the wrapped future completed with (the
\* buffered stream or its error) is passed on as it is; at expiry the wrapped
\* future is dropped with its connection, no step of it runs afterwards and
\* no success is reported.
TimedConnectOutcome ==
    /\ [](/\ result = "NegotiationPeerTimeout"
               => /\ negTimer = PeerNegotiationTimeout
                  /\ pc \in TimedPoints
                  /\ events[Len(events)] = Ev(pc, "NegotiationPeerTimeout")
                  /\ sock # "open"
          /\ result \in (DialErrors \cup NegotiationErrors) \ {"NegotiationPeerTimeout"}
               => /\ pc \in TimedPoints
                  /\ events[Len(events)] = Ev(pc, result)
          /\ pc \notin TimedPoints \cup {"start"}
               => /\ Len(events) >= 3
                  /\ events[3] = Ev("recv", "Ok")
                  /\ negTimer <= PeerNegotiationTimeout)
    /\ [][result = "NegotiationPeerTimeout" => UNCHANGED vars]_vars

TimedConnectTimeoutWitness ==
    /\ result = "NegotiationPeerTimeout"
    /\ pc = "send"
    /\ connectSent = 0
    /\ sock = "closed"

\* ---- g3bench h3 target: add_h3_args / parse_h3_args (target/h3/opts.rs)

\* Duration::from_secs(30), Duration::from_secs(15), in seconds
DefaultTimeout == 30
DefaultConnectTimeout == 15

\* the scheme part of the uri argument, as typed
H3SchemeTexts == {"http", "https", "HTTPS", "ftp", "h3"}

\* the uri argument: not given, given but no absolute URL, or a URL
H3Uris ==
    {[kind |-> "missing", scheme |-> ""], [kind |-> "garbage", scheme |-> ""]}
        \cup {[kind |-> "url", scheme |-> t] : t \in H3SchemeTexts}

\* the options given, in the order given
H3Opts ==
    {<<>>, <<"connection-pool">>, <<"no-multiplex">>,
     <<"connection-pool", "no-multiplex">>, <<"no-multiplex", "connection-pool">>}

\* the value given to --connection-pool
H3PoolValues == -1..MaxPool

Given(c) == {c.opts[i] : i \in 1..Len(c.opts)}

\* command lines; pool is read only when --connection-pool is given
H3Clis ==
    {c \in [uri : H3Uris, opts : H3Opts, pool : H3PoolValues] :
        "connection-pool" \notin Given(c) => c.pool = 1}

\* the CONNECT flow is not running
ConnRest ==
    /\ ConnInit
    /\ escaper = "ProxyHttp"
    /\ flow = "tcp"
    /\ nUsers = 0
    /\ ~passProxyUserid
    /\ ~hasRawUserName
    /\ appendHeaders = <<>>

H3Init ==
    /\ ConnRest
    /\ DiffRest
    /\ StatsRest
    /\ YamlRest
    /\ h3cli \in H3Clis
    /\ h3pc = "cli"
    /\ h3url = None
    /\ h3args = None
    /\ h3ret = "Pending"
    /\ h3peer \in {"answers", "silent"}
    /\ h3elapsed = 0
    /\ h3conn = "Pending"

\* .conflicts_with(..) as declared on connection-pool and on no-multiplex
ConflictsWithNone == {}

ConflictsWith ==
    {<<"connection-pool", "no-multiplex">>, <<"no-multiplex", "connection-pool">>}

\* value_parser!(usize): the value is a usize
UsizeParses(v) == v >= 0

\* clap, with the arguments add_h3_args declares, accepts the command line
ClapAccepts(c) ==
    /\ c.uri.kind # "missing"
    /\ "connection-pool" \in Given(c) => UsizeParses(c.pool)
    /\ \A a, b \in Given(c) : <<a, b>> \notin ConflictsWith

\* the url crate keeps the scheme in ASCII lower case
AsciiLower(t) ==
    CASE t = "HTTPS" -> "https"
      [] t = "HTTP" -> "http"
      [] OTHER -> t

\* Url::parse(v)
UrlParse(u) ==
    IF u.kind = "url" THEN Some([scheme |-> AsciiLower(u.scheme)]) ELSE None

\* an Err leaves parse_h3_args: its locals, h3_args among them, are dropped
H3Err(e) ==
    /\ h3ret' = e
    /\ h3args' = None

\* the argument parser handles the command line before parse_h3_args is
\* called: a rejected command line ends the program with an argument error
H3GetMatches ==
    /\ h3ret = "Pending"
    /\ h3pc = "cli"
    /\ IF ClapAccepts(h3cli)
       THEN h3pc' = "matched" /\ UNCHANGED h3ret
       ELSE h3pc' = "rejected" /\ h3ret' = "ArgumentError"
    /\ UNCHANGED <<nonH3Vars, h3quicVars, h3cli, h3url, h3args>>

\* let url = if let Some(v) = args.get_one(uri) { Url::parse(v)? } else { return Err(..) }
H3ParseUrl ==
    /\ h3ret = "Pending"
    /\ h3pc = "matched"
    /\ IF h3cli.uri.kind = "missing"
       THEN H3Err("NoTargetUrlSet") /\ UNCHANGED <<h3pc, h3url>>
       ELSE IF UrlParse(h3cli.uri) = None
       THEN H3Err("InvalidUriValue") /\ UNCHANGED <<h3pc, h3url>>
       ELSE /\ h3url' = UrlParse(h3cli.uri)
            /\ h3pc' = "url"
            /\ UNCHANGED <<h3ret, h3args>>
    /\ UNCHANGED <<nonH3Vars, h3quicVars, h3cli>>

\* BenchH3Args::new(url)
BenchH3ArgsNew(url) ==
    [pool_size |-> None, no_multiplex |-> FALSE, scheme |-> url.scheme,
     timeout |-> DefaultTimeout, connect_timeout |-> DefaultConnectTimeout]

\* let mut h3_args = BenchH3Args::new(url)?: UpstreamAddr::try_from(&url) and
\* HttpAuth::try_from(&url) accepted the url
H3ArgsNewOk ==
    /\ h3ret = "Pending"
    /\ h3pc = "url"
    /\ h3args' = Some(BenchH3ArgsNew(h3url.v))
    /\ h3pc' = "new"
    /\ UNCHANGED <<nonH3Vars, h3quicVars, h3cli, h3url, h3ret>>

\* .. or one of them did not
H3ArgsNewErr ==
    /\ h3ret = "Pending"
    /\ h3pc = "url"
    /\ H3Err("InvalidUpstream")
    /\ UNCHANGED <<nonH3Vars, h3quicVars, h3cli, h3pc, h3url>>

\* if *c > 0 { h3_args.pool_size = Some(*c) }
PoolSizeForAny(c, cur) == Some(c)

PoolSizeFor(c, cur) == IF c > 0 THEN Some(c) ELSE cur

\* if let Some(c) = args.get_one::<usize>(connection-pool) { .. }
H3SetPoolSize ==
    /\ h3ret = "Pending"
    /\ h3pc = "new"
    /\ h3args' = IF "connection-pool" \in Given(h3cli)
                 THEN Some([h3args.v EXCEPT
                              !.pool_size = PoolSizeFor(h3cli.pool, h3args.v.pool_size)])
                 ELSE h3args
    /\ h3pc' = "pool"
    /\ UNCHANGED <<nonH3Vars, h3quicVars, h3cli, h3url, h3ret>>

\* if args.get_flag(no-multiplex) { h3_args.no_multiplex = true }
H3SetNoMultiplex ==
    /\ h3ret = "Pending"
    /\ h3pc = "pool"
    /\ h3args' = IF "no-multiplex" \in Given(h3cli)
                 THEN Some([h3args.v EXCEPT !.no_multiplex = TRUE])
                 ELSE h3args
    /\ h3pc' = "flags"
    /\ UNCHANGED <<nonH3Vars, h3quicVars, h3cli, h3url, h3ret>>

\* get_duration(args, timeout)? and get_duration(args, connect-timeout)?
\* returned Ok: the defaults, or the d seconds the values stand for
H3SetTimeoutsOk ==
    /\ h3ret = "Pending"
    /\ h3pc = "flags"
    /\ \E d \in {DefaultTimeout, DefaultConnectTimeout} :
         h3args' = Some([h3args.v EXCEPT !.timeout = d, !.connect_timeout = d])
    /\ h3pc' = "timeouts"
    /\ UNCHANGED <<nonH3Vars, h3quicVars, h3cli, h3url, h3ret>>

\* .. or one of the two values is no duration
H3SetTimeoutsErr ==
    /\ h3ret = "Pending"
    /\ h3pc = "flags"
    /\ H3Err("InvalidDuration")
    /\ UNCHANGED <<nonH3Vars, h3quicVars, h3cli, h3pc, h3url>>

\* "http" | "https" => {}
SupportedSchemesWithFtp == {"http", "https", "ftp"}

SupportedSchemes == {"http", "https"}

\* match h3_args.target_url.scheme() { .. _ => return Err(..) }  Ok(h3_args)
H3CheckScheme ==
    /\ h3ret = "Pending"
    /\ h3pc = "timeouts"
    /\ IF h3args.v.scheme \in SupportedSchemes
       THEN h3ret' = "Ok" /\ h3pc' = "returned" /\ UNCHANGED h3args
       ELSE H3Err("UnsupportedTargetUrl") /\ UNCHANGED h3pc
    /\ UNCHANGED <<nonH3Vars, h3quicVars, h3cli, h3url>>

\* h3_args.resolve_target_address(proc_args), called on the returned args
H3Resolve ==
    /\ h3ret = "Ok"
    /\ h3pc = "returned"
    /\ h3pc' = "resolved"
    /\ UNCHANGED <<nonH3Vars, h3quicVars, h3cli, h3url, h3args, h3ret>>

\* new_quic_connection: select_peer, Endpoint::client(peer), the client config
\* and endpoint.connect_with(..) succeed: the connecting future is awaited
QuicConnectStart ==
    /\ h3pc = "resolved"
    /\ h3conn = "Pending"
    /\ h3pc' = "connecting"
    /\ h3elapsed' = 0
    /\ UNCHANGED <<nonH3Vars, h3cli, h3url, h3args, h3ret, h3peer, h3conn>>

\* .. or one of them fails: `?` returns the error
QuicConnectStartErr ==
    /\ h3pc = "resolved"
    /\ h3conn = "Pending"
    /\ h3conn' = "FailedToCreateQuicClient"
    /\ UNCHANGED <<nonH3Vars, h3cli, h3pc, h3url, h3args, h3ret, h3peer, h3elapsed>>

\* a second passes while the connecting future is awaited; nothing in
\* new_quic_connection or new_h3_connection reads self.connect_timeout
QuicTick ==
    /\ h3pc = "connecting"
    /\ h3conn = "Pending"
    /\ h3elapsed <= h3args.v.connect_timeout
    /\ h3elapsed' = h3elapsed + 1
    /\ UNCHANGED <<nonH3Vars, h3cli, h3pc, h3url, h3args, h3ret, h3peer, h3conn>>

\* the peer answered: Ok(h3_quinn::Connection::new(conn))
QuicConnectOk ==
    /\ h3pc = "connecting"
    /\ h3conn = "Pending"
    /\ h3peer = "answers"
    /\ h3pc' = "quic"
    /\ UNCHANGED <<nonH3Vars, h3cli, h3url, h3args, h3ret, h3quicVars>>

\* the connecting future ended with an error of the QUIC library
QuicConnectErr ==
    /\ h3pc = "connecting"
    /\ h3conn = "Pending"
    /\ h3conn' = "FailedToConnect"
    /\ UNCHANGED <<nonH3Vars, h3cli, h3pc, h3url, h3args, h3ret, h3peer, h3elapsed>>

\* new_h3_connection: h3::client::new(quic_conn).await, the driver is spawned
H3ClientNewOk ==
    /\ h3pc = "quic"
    /\ h3conn = "Pending"
    /\ h3conn' = "Ok"
    /\ h3pc' = "h3"
    /\ UNCHANGED <<nonH3Vars, h3cli, h3url, h3args, h3ret, h3peer, h3elapsed>>

H3ClientNewErr ==
    /\ h3pc = "quic"
    /\ h3conn = "Pending"
    /\ h3conn' = "FailedToCreateH3Connection"
    /\ UNCHANGED <<nonH3Vars, h3cli, h3pc, h3url, h3args, h3ret, h3peer, h3elapsed>>

H3Next ==
    \/ H3GetMatches
    \/ H3ParseUrl
    \/ H3ArgsNewOk
    \/ H3ArgsNewErr
    \/ H3SetPoolSize
    \/ H3SetNoMultiplex
    \/ H3SetTimeoutsOk
    \/ H3SetTimeoutsErr
    \/ H3CheckScheme
    \/ H3Resolve
    \/ QuicConnectStart
    \/ QuicConnectStartErr
    \/ QuicTick
    \/ QuicConnectOk
    \/ QuicConnectErr
    \/ H3ClientNewOk
    \/ H3ClientNewErr

SpecH3 == H3Init /\ [][H3Next]_vars

H3TypeOK ==
    /\ h3cli \in H3Clis
    /\ h3pc \in {"cli", "rejected", "matched", "url", "new", "pool", "flags",
                 "timeouts", "returned", "resolved", "connecting", "quic", "h3"}
    /\ h3peer \in {"answers", "silent"}
    /\ h3elapsed \in 0..(DefaultTimeout + 1)
    /\ h3conn \in {"Pending", "Ok", "FailedToCreateQuicClient", "FailedToConnect",
                   "FailedToCreateH3Connection"}
    /\ h3ret \in {"Pending", "Ok", "ArgumentError", "NoTargetUrlSet",
                  "InvalidUriValue", "InvalidUpstream", "InvalidDuration",
                  "UnsupportedTargetUrl"}
    /\ h3url = None \/ h3url.v.scheme \in {AsciiLower(t) : t \in H3SchemeTexts}
    /\ h3args = None \/ h3args.v.no_multiplex \in BOOLEAN

\* C18: a command line giving both connection-pool and no-multiplex, in
\* either order, is rejected by the argument parser: parse_h3_args is not
\* entered, no BenchH3Args is built and nothing is resolved; and no
\* BenchH3Args has pool_size set and no_multiplex true.
PoolAndNoMultiplexExclusive ==
    /\ {"connection-pool", "no-multiplex"} \subseteq Given(h3cli)
           => /\ h3pc \in {"cli", "rejected"}
              /\ h3url = None
              /\ h3args = None
              /\ h3ret \in {"Pending", "ArgumentError"}
    /\ h3args # None => ~(h3args.v.pool_size # None /\ h3args.v.no_multiplex)

PoolAndNoMultiplexWitness ==
    /\ h3cli.opts = <<"no-multiplex", "connection-pool">>
    /\ h3cli.pool > 0
    /\ h3cli.uri.kind = "url"
    /\ h3pc = "rejected"
    /\ h3ret = "ArgumentError"

\* C19 as stated: connection-pool 0 is an argument error, and every accepted
\* value c gives pool_size = Some(c) with c >= 1.
PoolSizePositiveOnly ==
    "connection-pool" \in Given(h3cli)
        => /\ (h3cli.pool = 0 /\ h3pc # "cli") => h3ret = "ArgumentError"
           /\ h3ret = "Ok" => h3cli.pool >= 1 /\ h3args.v.pool_size = Some(h3cli.pool)

\* C19 as amended: connection-pool takes a usize: a negative value is an
\* argument error, 0 is accepted and leaves pool_size unset as if the option
\* was not given, and c >= 1 gives pool_size = Some(c); pool_size is never
\* Some(0).
PoolSizeSetWhenPositive ==
    /\ ("connection-pool" \in Given(h3cli) /\ h3cli.pool < 0)
           => h3pc \in {"cli", "rejected"}
    /\ h3args # None => h3args.v.pool_size = None \/ h3args.v.pool_size.v >= 1
    /\ h3ret = "Ok"
           => h3args.v.pool_size =
                 IF "connection-pool" \in Given(h3cli) /\ h3cli.pool >= 1
                 THEN Some(h3cli.pool)
                 ELSE None

PoolSizeZeroWitness ==
    /\ "connection-pool" \in Given(h3cli)
    /\ h3cli.pool = 0
    /\ h3ret = "Ok"
    /\ h3args.v.pool_size = None

\* C20: parse_h3_args returns Ok only for a uri that parses to a URL of
\* scheme http or https; a missing or unparsable uri and every other scheme
\* end in an error, and an error leaves no BenchH3Args.
OkOnlyForHttpSchemes ==
    /\ h3ret = "Ok"
           => /\ h3cli.uri.kind = "url"
              /\ AsciiLower(h3cli.uri.scheme) \in {"http", "https"}
              /\ h3args # None
    /\ h3ret \notin {"Pending", "Ok"} => h3args = None /\ h3pc \in {"rejected", "matched", "url", "flags", "timeouts"}
    /\ (h3pc # "cli" /\ h3cli.uri.kind = "missing") => h3ret = "ArgumentError"
    /\ (h3pc \notin {"cli", "matched"} /\ h3cli.uri.kind = "garbage")
           => h3ret \in {"ArgumentError", "InvalidUriValue"}
    /\ (h3pc \in {"returned", "resolved", "connecting", "quic", "h3"}) => h3ret = "Ok"

UnsupportedSchemeWitness ==
    /\ h3cli.uri = [kind |-> "url", scheme |-> "ftp"]
    /\ h3ret = "UnsupportedTargetUrl"
    /\ h3pc = "timeouts"
    /\ h3args = None

LISTEN == 1
QUINN == 2

\* values of PlainQuicPortConfig; ingress_net_filter is an Option
PlainQuicPortConfigs ==
    [name : {"q1", "q2"}, position : {"p1", "p2"}, listen : {"l1", "l2"},
     listen_in_worker : BOOLEAN, tls_server : {"t1", "t2"},
     ingress_net_filter : {None, Some("acl")}, server : {"s1", "s2"}]

\* values of AnyServerConfig: a PlainQuicPort config, or one of another type
AnyServerConfigs ==
    [type : {"PlainQuicPort"}, config : PlainQuicPortConfigs]
        \cup {[type |-> "PlainTcpPort", config |-> PlainQuicPortConfigNew]}

DiffInit ==
    /\ ConnRest
    /\ H3Rest
    /\ StatsRest
    /\ YamlRest
    /\ diffSelf \in {c \in PlainQuicPortConfigs :
                       /\ c.name = "q1" /\ c.position = "p1" /\ ~c.listen_in_worker
                       /\ c.ingress_net_filter = None /\ c.server = "s1"}
    /\ diffNew \in AnyServerConfigs
    /\ diffPc = "match"
    /\ diffFlags = 0
    /\ diffRet = None

SpawnNew == [kind |-> "SpawnNew", flags |-> 0]
NoAction == [kind |-> "NoAction", flags |-> 0]
UpdateInPlace(bits) == [kind |-> "UpdateInPlace", flags |-> bits]

\* #[derive(PartialEq)] on PlainQuicPortConfig: every field is compared
ConfigEqListenAndTls(a, b) == a.listen = b.listen /\ a.tls_server = b.tls_server

ConfigEq(a, b) ==
    /\ a.name = b.name
    /\ a.position = b.position
    /\ a.listen = b.listen
    /\ a.listen_in_worker = b.listen_in_worker
    /\ a.tls_server = b.tls_server
    /\ a.ingress_net_filter = b.ingress_net_filter
    /\ a.server = b.server

\* flags.contains(bit), for a single bit
Contains(bits, bit) == (bits \div bit) % 2 = 1

\* flags.set(bit, true)
FlagsSet(bits, bit) == IF Contains(bits, bit) THEN bits ELSE bits + bit

\* let new = match new { PlainQuicPort(config) => config, _ => return SpawnNew }
DiffMatch ==
    /\ diffPc = "match"
    /\ IF diffNew.type = "PlainQuicPort"
       THEN diffPc' = "eq" /\ UNCHANGED diffRet
       ELSE diffPc' = "returned" /\ diffRet' = Some(SpawnNew)
    /\ UNCHANGED <<nonDiffVars, diffSelf, diffNew, diffFlags>>

\* if self.eq(new) { return NoAction }  let mut flags = empty()
DiffEq ==
    /\ diffPc = "eq"
    /\ IF ConfigEq(diffSelf, diffNew.config)
       THEN diffPc' = "returned" /\ diffRet' = Some(NoAction) /\ UNCHANGED diffFlags
       ELSE diffPc' = "listen" /\ diffFlags' = 0 /\ UNCHANGED diffRet
    /\ UNCHANGED <<nonDiffVars, diffSelf, diffNew>>

\* if self.listen != new.listen { flags.set(LISTEN, true) }
DiffListen ==
    /\ diffPc = "listen"
    /\ diffFlags' = IF diffSelf.listen # diffNew.config.listen
                    THEN FlagsSet(diffFlags, LISTEN)
                    ELSE diffFlags
    /\ diffPc' = "quinn"
    /\ UNCHANGED <<nonDiffVars, diffSelf, diffNew, diffRet>>

\* if self.tls_server != new.tls_server { flags.set(QUINN, true) }
DiffQuinnOnListen ==
    /\ diffPc = "quinn"
    /\ diffFlags' = IF diffSelf.listen # diffNew.config.listen
                    THEN FlagsSet(diffFlags, QUINN)
                    ELSE diffFlags
    /\ diffPc' = "bits"
    /\ UNCHANGED <<nonDiffVars, diffSelf, diffNew, diffRet>>

DiffQuinn ==
    /\ diffPc = "quinn"
    /\ diffFlags' = IF diffSelf.tls_server # diffNew.config.tls_server
                    THEN FlagsSet(diffFlags, QUINN)
                    ELSE diffFlags
    /\ diffPc' = "bits"
    /\ UNCHANGED <<nonDiffVars, diffSelf, diffNew, diffRet>>

\* ServerConfigDiffAction::UpdateInPlace(flags.bits())
DiffUpdateInPlace ==
    /\ diffPc = "bits"
    /\ diffRet' = Some(UpdateInPlace(diffFlags))
    /\ diffPc' = "returned"
    /\ UNCHANGED <<nonDiffVars, diffSelf, diffNew, diffFlags>>

DiffNext ==
    \/ DiffMatch
    \/ DiffEq
    \/ DiffListen
    \/ DiffQuinn
    \/ DiffUpdateInPlace

SpecDiff == DiffInit /\ [][DiffNext]_vars

\* C23: diff_action returns SpawnNew exactly when the new config is of
\* another server type, NoAction exactly when the two configs are equal, and
\* otherwise UpdateInPlace(flags) whose LISTEN bit is set iff the listen
\* configs differ and whose QUINN bit is set iff the tls_server configs differ.
DiffActionBitmask ==
    diffPc = "returned"
        => /\ diffRet.v = SpawnNew <=> diffNew.type # "PlainQuicPort"
           /\ diffRet.v = NoAction
                 <=> (diffNew.type = "PlainQuicPort" /\ diffSelf = diffNew.config)
           /\ diffRet.v.kind \in {"SpawnNew", "NoAction", "UpdateInPlace"}
           /\ diffRet.v.kind = "UpdateInPlace"
                 => /\ diffRet.v.flags \in 0..(LISTEN + QUINN)
                    /\ Contains(diffRet.v.flags, LISTEN)
                          <=> diffSelf.listen # diffNew.config.listen
                    /\ Contains(diffRet.v.flags, QUINN)
                          <=> diffSelf.tls_server # diffNew.config.tls_server

DiffActionBitmaskWitness ==
    /\ diffPc = "returned"
    /\ diffRet.v = UpdateInPlace(QUINN)
    /\ diffSelf.listen = diffNew.config.listen
    /\ diffSelf.tls_server # diffNew.config.tls_server

\* C28: two PlainQuicPortConfig values that are not equal but have equal
\* listen and tls_server give UpdateInPlace with the empty bitmask.
DiffOtherFieldsEmptyBitmask ==
    (/\ diffPc = "returned"
     /\ diffNew.type = "PlainQuicPort"
     /\ diffSelf # diffNew.config
     /\ diffSelf.listen = diffNew.config.listen
     /\ diffSelf.tls_server = diffNew.config.tls_server)
        => diffRet.v = UpdateInPlace(0)

DiffOtherFieldsWitness ==
    /\ diffPc = "returned"
    /\ diffRet.v = UpdateInPlace(0)
    /\ diffSelf.name # diffNew.config.name
    /\ diffSelf.listen = diffNew.config.listen
    /\ diffSelf.tls_server = diffNew.config.tls_server

\* ---- server metrics: sync_stats / emit_stats (stat/metrics/server.rs)

\* counters are u64 in the source; the model keeps them modulo 2^CounterBits
Modulus == 2 ^ CounterBits

\* u64::wrapping_sub
SaturatingSub(a, b) == IF a >= b THEN a - b ELSE 0

WrappingSub(a, b) == (a - b + Modulus) % Modulus

\* A server is running; its counters hold what was counted before metrics
\* were first synced; nothing is registered yet.
StatsInit ==
    /\ ConnRest
    /\ H3Rest
    /\ DiffRest
    /\ YamlRest
    /\ stCounter \in {[c \in Counters |-> IF c = "conn_total" THEN v ELSE 0] :
                        v \in {0, Modulus - 1}}
    /\ stTotal = stCounter
    /\ stIncrs = 0
    /\ stServerAlive = TRUE
    /\ stTaskRefs = 0
    /\ stRegistered = FALSE
    /\ stSnap = ServerSnapshotDefault
    /\ stEmitted = [c \in Counters |-> 0]
    /\ stRemoved = FALSE
    /\ stListenRegistered = FALSE
    /\ serverLock = "free"
    /\ listenLock = "free"
    /\ syncPc = "idle"
    /\ emitPc = "idle"

\* Arc::strong_count(stats): the map entry, the server, the tasks
StrongCount ==
    (IF stRegistered THEN 1 ELSE 0) + (IF stServerAlive THEN 1 ELSE 0) + stTaskRefs

\* a holder of the stats adds one to a counter
StatsIncrement ==
    /\ stServerAlive \/ stTaskRefs > 0
    /\ stIncrs < MaxIncrements
    /\ \E c \in Counters :
         /\ stCounter' = [stCounter EXCEPT ![c] = (@ + 1) % Modulus]
         /\ stTotal' = [stTotal EXCEPT ![c] = @ + 1]
    /\ stIncrs' = stIncrs + 1
    /\ UNCHANGED <<nonStatsVars, stRefVars, stMapVars, stListenRegistered,
                   stLockVars, syncPc, emitPc>>

\* the server starts a task, which keeps a clone of the stats
TaskSpawn ==
    /\ stServerAlive
    /\ stTaskRefs < MaxTasks
    /\ stTaskRefs' = stTaskRefs + 1
    /\ UNCHANGED <<nonStatsVars, stCtrVars, stServerAlive, stMapVars,
                   stListenRegistered, stLockVars, syncPc, emitPc>>

\* a task ends and drops its clone
TaskEnd ==
    /\ stTaskRefs > 0
    /\ stTaskRefs' = stTaskRefs - 1
    /\ UNCHANGED <<nonStatsVars, stCtrVars, stServerAlive, stMapVars,
                   stListenRegistered, stLockVars, syncPc, emitPc>>

\* the server is removed from crate::serve and dropped with its references
ServerDrop ==
    /\ stServerAlive
    /\ stServerAlive' = FALSE
    /\ UNCHANGED <<nonStatsVars, stCtrVars, stTaskRefs, stMapVars,
                   stListenRegistered, stLockVars, syncPc, emitPc>>

\* sync_stats: SERVER_STATS_MAP.lock().unwrap()
SyncLockServer ==
    /\ syncPc = "idle"
    /\ serverLock = "free"
    /\ serverLock' = "sync"
    /\ syncPc' = "server_entries"
    /\ UNCHANGED <<nonStatsVars, stCtrVars, stRefVars, stMapVars,
                   stListenRegistered, listenLock, emitPc>>

\* foreach_server: .entry(stat_id).or_insert_with(|| (stats, ServerSnapshot::default()))
SyncServerEntriesReplace ==
    /\ syncPc = "server_entries"
    /\ IF stServerAlive
       THEN stRegistered' = TRUE /\ stSnap' = ServerSnapshotDefault
       ELSE UNCHANGED <<stRegistered, stSnap>>
    /\ syncPc' = "drop_server"
    /\ UNCHANGED <<nonStatsVars, stCtrVars, stRefVars, stEmitted, stRemoved,
                   stListenRegistered, stLockVars, emitPc>>

SyncServerEntries ==
    /\ syncPc = "server_entries"
    /\ IF stServerAlive /\ ~stRegistered
       THEN stRegistered' = TRUE /\ stSnap' = ServerSnapshotDefault
       ELSE UNCHANGED <<stRegistered, stSnap>>
    /\ syncPc' = "drop_server"
    /\ UNCHANGED <<nonStatsVars, stCtrVars, stRefVars, stEmitted, stRemoved,
                   stListenRegistered, stLockVars, emitPc>>

\* drop(server_stats_map)
SyncKeepServer ==
    /\ syncPc = "drop_server"
    /\ syncPc' = "lock_listen"
    /\ UNCHANGED <<nonStatsVars, stCtrVars, stRefVars, stMapVars,
                   stListenRegistered, stLockVars, emitPc>>

SyncDropServer ==
    /\ syncPc = "drop_server"
    /\ serverLock' = "free"
    /\ syncPc' = "lock_listen"
    /\ UNCHANGED <<nonStatsVars, stCtrVars, stRefVars, stMapVars,
                   stListenRegistered, listenLock, emitPc>>

\* LISTEN_STATS_MAP.lock().unwrap()
SyncLockListen ==
    /\ syncPc = "lock_listen"
    /\ listenLock = "free"
    /\ listenLock' = "sync"
    /\ syncPc' = "listen_entries"
    /\ UNCHANGED <<nonStatsVars, stCtrVars, stRefVars, stMapVars,
                   stListenRegistered, serverLock, emitPc>>

\* foreach_server: .entry(stat_id).or_insert_with(|| (stats, ListenSnapshot::default()))
SyncListenEntries ==
    /\ syncPc = "listen_entries"
    /\ stListenRegistered' = (stListenRegistered \/ stServerAlive)
    /\ syncPc' = "drop_listen"
    /\ UNCHANGED <<nonStatsVars, stCtrVars, stRefVars, stMapVars, stLockVars, emitPc>>

\* drop(listen_stats_map)
SyncDropListen ==
    /\ syncPc = "drop_listen"
    /\ listenLock' = "free"
    /\ syncPc' = "idle"
    /\ UNCHANGED <<nonStatsVars, stCtrVars, stRefVars, stMapVars,
                   stListenRegistered, serverLock, emitPc>>

\* emit_stats: SERVER_STATS_MAP.lock().unwrap(); retain visits the entry
EmitLockServer ==
    /\ emitPc = "idle"
    /\ serverLock = "free"
    /\ serverLock' = "emit"
    /\ emitPc' = IF stRegistered THEN "conn_total" ELSE "drop_server"
    /\ UNCHANGED <<nonStatsVars, stCtrVars, stRefVars, stMapVars,
                   stListenRegistered, listenLock, syncPc>>

\* let new_value = stats.get_..(); count(new_value.wrapping_sub(snap.c)); snap.c = new_value
EmitCounter(c) ==
    /\ stEmitted' = [stEmitted EXCEPT ![c] = @ + WrappingSub(stCounter[c], stSnap[c])]
    /\ stSnap' = [stSnap EXCEPT ![c] = stCounter[c]]

\* emit_server_stats: conn_total
EmitConnTotal ==
    /\ emitPc = "conn_total"
    /\ EmitCounter("conn_total")
    /\ emitPc' = "task_total"
    /\ UNCHANGED <<nonStatsVars, stCtrVars, stRefVars, stRegistered, stRemoved,
                   stListenRegistered, stLockVars, syncPc>>

\* emit_server_stats: task_total
EmitTaskTotal ==
    /\ emitPc = "task_total"
    /\ EmitCounter("task_total")
    /\ emitPc' = "tcp_io"
    /\ UNCHANGED <<nonStatsVars, stCtrVars, stRefVars, stRegistered, stRemoved,
                   stListenRegistered, stLockVars, syncPc>>

\* emit_tcp_io_to_statsd(client, stats.tcp_io_snapshot(), &mut snap.tcp, ..):
\* returns at once when in_bytes and its snapshot are both 0, else emits the
\* in_bytes and the out_bytes deltas
EmitTcpIo ==
    /\ emitPc = "tcp_io"
    /\ IF stCounter["in_bytes"] = 0 /\ stSnap["in_bytes"] = 0
       THEN UNCHANGED <<stEmitted, stSnap>>
       ELSE /\ stEmitted' = [stEmitted EXCEPT
                  !["in_bytes"] = @ + WrappingSub(stCounter["in_bytes"], stSnap["in_bytes"]),
                  !["out_bytes"] = @ + WrappingSub(stCounter["out_bytes"], stSnap["out_bytes"])]
            /\ stSnap' = [stSnap EXCEPT !["in_bytes"] = stCounter["in_bytes"],
                                        !["out_bytes"] = stCounter["out_bytes"]]
    /\ emitPc' = "retain"
    /\ UNCHANGED <<nonStatsVars, stCtrVars, stRefVars, stRegistered, stRemoved,
                   stListenRegistered, stLockVars, syncPc>>

\* retain: Arc::strong_count(stats) > 1
EmitRetainServer ==
    /\ emitPc = "retain"
    /\ IF StrongCount > 1
       THEN UNCHANGED <<stRegistered, stRemoved>>
       ELSE stRegistered' = FALSE /\ stRemoved' = TRUE
    /\ emitPc' = "drop_server"
    /\ UNCHANGED <<nonStatsVars, stCtrVars, stRefVars, stSnap, stEmitted,
                   stListenRegistered, stLockVars, syncPc>>

\* drop(server_stats_map)
EmitDropServer ==
    /\ emitPc = "drop_server"
    /\ serverLock' = "free"
    /\ emitPc' = "lock_listen"
    /\ UNCHANGED <<nonStatsVars, stCtrVars, stRefVars, stMapVars,
                   stListenRegistered, listenLock, syncPc>>

\* LISTEN_STATS_MAP.lock().unwrap()
EmitLockListen ==
    /\ emitPc = "lock_listen"
    /\ listenLock = "free"
    /\ listenLock' = "emit"
    /\ emitPc' = "listen_retain"
    /\ UNCHANGED <<nonStatsVars, stCtrVars, stRefVars, stMapVars,
                   stListenRegistered, serverLock, syncPc>>

\* listen_stats_map.retain: emit_listen_stats, then Arc::strong_count(stats) > 1
EmitListenRetain ==
    /\ emitPc = "listen_retain"
    /\ stListenRegistered' = (stListenRegistered /\ stServerAlive)
    /\ emitPc' = "drop_listen"
    /\ UNCHANGED <<nonStatsVars, stCtrVars, stRefVars, stMapVars, stLockVars, syncPc>>

\* the guard is dropped at the end of emit_stats
EmitDropListen ==
    /\ emitPc = "drop_listen"
    /\ listenLock' = "free"
    /\ emitPc' = "idle"
    /\ UNCHANGED <<nonStatsVars, stCtrVars, stRefVars, stMapVars,
                   stListenRegistered, serverLock, syncPc>>

SyncStep ==
    \/ SyncLockServer
    \/ SyncServerEntries
    \/ SyncDropServer
    \/ SyncLockListen
    \/ SyncListenEntries
    \/ SyncDropListen

EmitStep ==
    \/ EmitLockServer
    \/ EmitConnTotal
    \/ EmitTaskTotal
    \/ EmitTcpIo
    \/ EmitRetainServer
    \/ EmitDropServer
    \/ EmitLockListen
    \/ EmitListenRetain
    \/ EmitDropListen

StatsNext ==
    \/ StatsIncrement
    \/ TaskSpawn
    \/ TaskEnd
    \/ ServerDrop
    \/ SyncStep
    \/ EmitStep

SpecStats == StatsInit /\ [][StatsNext]_vars

StatsTypeOK ==
    /\ stCounter \in [Counters -> 0..(Modulus - 1)]
    /\ stSnap \in [Counters -> 0..(Modulus - 1)]
    /\ stTotal \in [Counters -> Nat]
    /\ stEmitted \in [Counters -> Nat]
    /\ stIncrs \in 0..MaxIncrements
    /\ stTaskRefs \in 0..MaxTasks
    /\ serverLock \in {"free", "sync", "emit"}
    /\ listenLock \in {"free", "sync", "emit"}
    /\ syncPc \in {"idle", "server_entries", "drop_server", "lock_listen",
                   "listen_entries", "drop_listen"}
    /\ emitPc \in {"idle", "conn_total", "task_total", "tcp_io", "retain",
                   "drop_server", "lock_listen", "listen_retain", "drop_listen"}

\* sync_stats and emit_stats on two threads that are scheduled again and
\* again: a thread waiting in Mutex::lock gets the mutex once it is released
\* often enough
SpecStatsLive ==
    StatsInit /\ [][StatsNext]_vars /\ SF_vars(SyncStep) /\ SF_vars(EmitStep)

\* the counters emit_server_stats emits without a condition
ServerCounters == {"conn_total", "task_total"}

\* C24: for the registered entry the stored snapshot of conn_total and of
\* task_total is the value read at the most recent emit and the sum of the
\* deltas emitted so far equals it (modulo the counter width, and never
\* exceeds the increments made); an emit step stores the value it read; a
\* sync_stats never changes the snapshot of an entry already registered.
SnapshotTracksCounter ==
    /\ [](\A c \in ServerCounters :
            /\ stSnap[c] = stEmitted[c] % Modulus
            /\ stEmitted[c] <= stTotal[c])
    /\ [][/\ (emitPc = "conn_total" /\ emitPc' # emitPc)
               => stSnap'["conn_total"] = stCounter["conn_total"]
          /\ (emitPc = "task_total" /\ emitPc' # emitPc)
               => stSnap'["task_total"] = stCounter["task_total"]
          /\ (stRegistered /\ syncPc' # syncPc) => UNCHANGED <<stRegistered, stSnap>>
         ]_vars

SnapshotTracksCounterWitness ==
    /\ stRegistered
    /\ syncPc = "drop_server"
    /\ stSnap["task_total"] > 0
    /\ stEmitted["task_total"] = stTotal["task_total"]
    /\ stEmitted["conn_total"] >= Modulus - 1

\* C25: the entry leaves SERVER_STATS_MAP only in the retain step of an
\* emit_stats that has just emitted it, with the map as sole holder of the
\* stats, and then every increment of conn_total and task_total made by the
\* holders has been emitted.
FinalMetricsEmitted ==
    /\ [](stRemoved => \A c \in ServerCounters : stEmitted[c] % Modulus = stCounter[c])
    /\ [][(stRegistered /\ ~stRegistered')
             => (emitPc = "retain" /\ ~stServerAlive /\ stTaskRefs = 0)]_vars

\* C26: every emitted delta is (new - snapshot) mod 2^width, a value of
\* 0 .. 2^width - 1, and equals the increments made since the previous emit of
\* that counter whenever these are fewer than 2^width.
DeltaIsWrappingSub ==
    [][\A c \in Counters :
          stEmitted'[c] # stEmitted[c] \/ (c \in ServerCounters /\ stSnap'[c] # stSnap[c])
             => LET d == stEmitted'[c] - stEmitted[c]
                IN  /\ d \in 0..(Modulus - 1)
                    /\ (d - (stCounter[c] - stSnap[c])) % Modulus = 0
                    /\ stTotal[c] - stEmitted[c] < Modulus => stEmitted'[c] = stTotal[c]
      ]_vars

DeltaWrappedWitness ==
    /\ stTotal["conn_total"] = Modulus
    /\ stEmitted["conn_total"] = Modulus
    /\ stSnap["conn_total"] = 0
    /\ stCounter["conn_total"] = 0

\* C27: the TCP step of an emit leaves the snapshot's out_bytes equal to the
\* out_bytes value it read, and the sum of the emitted out_bytes deltas equal
\* to the counter, also while in_bytes is 0.
OutBytesAlwaysEmitted ==
    [][(emitPc = "tcp_io" /\ emitPc' = "retain")
         => /\ stSnap'["out_bytes"] = stCounter["out_bytes"]
            /\ stEmitted'["out_bytes"] % Modulus = stCounter["out_bytes"]]_vars

YamlKeys == {"thread_number", "openssl_async_job_init_size",
             "openssl_async_job_max_size", "openssl-async-job-max-size",
             "unknown_key"}

\* the values: integers, -1 standing for every value as_usize rejects
YamlValues == (0..MaxYamlValue) \cup {-1}

\* g3_yaml::key::normalize(k): lower case, '-' replaced by '_'
Normalize(k) ==
    IF k = "openssl-async-job-max-size" THEN "openssl_async_job_max_size" ELSE k

\* g3_yaml::value::as_usize(v)
AsUsize(v) == IF v >= 0 THEN Some(v) ELSE None

\* the maps given to parse_yaml: no key twice (a Yaml::Hash)
YamlHashes ==
    {s \in UNION {[1..n -> [k : YamlKeys, v : YamlValues]] : n \in 0..MaxYamlKeys} :
        \A i, j \in DOMAIN s : i # j => s[i].k # s[j].k}

\* UnaidedRuntimeConfig::default(): the two job sizes have some default
UnaidedRuntimeConfigDefaults ==
    [thread_number : {None},
     openssl_async_job_init_size : 0..MaxYamlValue,
     openssl_async_job_max_size : 0..MaxYamlValue]

YamlInit ==
    /\ ConnRest
    /\ H3Rest
    /\ DiffRest
    /\ StatsRest
    /\ yamlFeature \in BOOLEAN
    /\ yamlV \in [hash : {TRUE}, kvs : YamlHashes] \cup {[hash |-> FALSE, kvs |-> <<>>]}
    /\ yamlIdx = 1
    /\ yamlConfig = None
    /\ yamlPc = "call"
    /\ yamlRet = None

YamlErr(e) == [ok |-> FALSE, err |-> e]
YamlOk(c) == [ok |-> TRUE, config |-> c]

\* `if let Yaml::Hash(map) = v` fails: Err(.. should be 'map')
YamlNotMap ==
    /\ yamlPc = "call"
    /\ ~yamlV.hash
    /\ yamlPc' = "returned"
    /\ yamlRet' = Some(YamlErr("type"))
    /\ UNCHANGED <<nonYamlVars, yamlFeature, yamlV, yamlIdx, yamlConfig>>

\* let mut config = UnaidedRuntimeConfig::default()
YamlDefault ==
    /\ yamlPc = "call"
    /\ yamlV.hash
    /\ \E c \in UnaidedRuntimeConfigDefaults : yamlConfig' = Some(c)
    /\ yamlPc' = "kv"
    /\ UNCHANGED <<nonYamlVars, yamlFeature, yamlV, yamlIdx, yamlRet>>

\* the entry foreach_kv hands to the closure next
YamlAt(k) ==
    /\ yamlPc = "kv"
    /\ yamlIdx <= Len(yamlV.kvs)
    /\ Normalize(yamlV.kvs[yamlIdx].k) = k

\* config.set_<field>(size), then Ok(()): foreach_kv goes to the next entry
YamlSet(field, size) ==
    /\ yamlConfig' = Some([yamlConfig.v EXCEPT ![field] = size])
    /\ yamlIdx' = yamlIdx + 1
    /\ UNCHANGED <<nonYamlVars, yamlFeature, yamlV, yamlPc, yamlRet>>

\* "thread_number" => as_usize(v)?, config.set_thread_number(value)
YamlThreadNumber ==
    /\ YamlAt("thread_number")
    /\ AsUsize(yamlV.kvs[yamlIdx].v).some
    /\ YamlSet("thread_number", AsUsize(yamlV.kvs[yamlIdx].v))

\* "openssl_async_job_init_size" => config.set_openssl_async_job_init_size(size)
YamlInitSize ==
    /\ yamlFeature
    /\ YamlAt("openssl_async_job_init_size")
    /\ AsUsize(yamlV.kvs[yamlIdx].v).some
    /\ YamlSet("openssl_async_job_init_size", AsUsize(yamlV.kvs[yamlIdx].v).v)

\* "openssl_async_job_max_size" => config.set_openssl_async_job_init_size(size)
YamlMaxSize ==
    /\ yamlFeature
    /\ YamlAt("openssl_async_job_max_size")
    /\ AsUsize(yamlV.kvs[yamlIdx].v).some
    /\ YamlSet("openssl_async_job_init_size", AsUsize(yamlV.kvs[yamlIdx].v).v)

\* the keys parse_yaml matches in this build
YamlKnownKeys ==
    {"thread_number"} \cup
    (IF yamlFeature
       THEN {"openssl_async_job_init_size", "openssl_async_job_max_size"}
       ELSE {})

\* as_usize(v)? fails: the closure returns the error and foreach_kv stops
YamlValueErr ==
    /\ \E k \in YamlKnownKeys : YamlAt(k)
    /\ ~AsUsize(yamlV.kvs[yamlIdx].v).some
    /\ yamlPc' = "returned"
    /\ yamlRet' = Some(YamlErr("value"))
    /\ yamlConfig' = None
    /\ UNCHANGED <<nonYamlVars, yamlFeature, yamlV, yamlIdx>>

\* _ => Err(anyhow!("invalid key {k}"))
YamlInvalidKey ==
    /\ yamlPc = "kv"
    /\ yamlIdx <= Len(yamlV.kvs)
    /\ Normalize(yamlV.kvs[yamlIdx].k) \notin YamlKnownKeys
    /\ yamlPc' = "returned"
    /\ yamlRet' = Some(YamlErr("key"))
    /\ yamlConfig' = None
    /\ UNCHANGED <<nonYamlVars, yamlFeature, yamlV, yamlIdx>>

\* foreach_kv is through the map: Ok(config)
YamlReturnOk ==
    /\ yamlPc = "kv"
    /\ yamlIdx > Len(yamlV.kvs)
    /\ yamlPc' = "returned"
    /\ yamlRet' = Some(YamlOk(yamlConfig.v))
    /\ UNCHANGED <<nonYamlVars, yamlFeature, yamlV, yamlIdx, yamlConfig>>

YamlNext ==
    \/ YamlNotMap
    \/ YamlDefault
    \/ YamlThreadNumber
    \/ YamlInitSize
    \/ YamlMaxSize
    \/ YamlValueErr
    \/ YamlInvalidKey
    \/ YamlReturnOk

SpecYaml == YamlInit /\ [][YamlNext]_vars

YamlTypeOK ==
    /\ yamlPc \in {"call", "kv", "returned"}
    /\ yamlIdx \in 1..(Len(yamlV.kvs) + 1)
    /\ yamlConfig \in {None} \cup {Some(c) : c \in
          [thread_number : {None} \cup {Some(n) : n \in 0..MaxYamlValue},
           openssl_async_job_init_size : 0..MaxYamlValue,
           openssl_async_job_max_size : 0..MaxYamlValue]}
    /\ (yamlPc = "returned") <=> yamlRet.some
    /\ (yamlPc = "kv") => yamlConfig.some

\* C30: with feature openssl-async-job, an entry with key
\* openssl_async_job_max_size and a usize value sets the maximum size to that
\* value and leaves the initial size as it was, and an entry with key
\* openssl_async_job_init_size sets the initial size and leaves the maximum
\* size as it was, wherever the entry stands in the map.
AsyncJobSizeKeysIndependent ==
    [][(yamlFeature /\ yamlPc = "kv" /\ yamlIdx' = yamlIdx + 1)
         => LET kv == yamlV.kvs[yamlIdx]
                k == Normalize(kv.k)
                old == yamlConfig.v
                new == yamlConfig'.v
            IN  /\ (k = "openssl_async_job_max_size")
                      => /\ new.openssl_async_job_max_size = kv.v
                         /\ new.openssl_async_job_init_size = old.openssl_async_job_init_size
                /\ (k = "openssl_async_job_init_size")
                      => /\ new.openssl_async_job_init_size = kv.v
                         /\ new.openssl_async_job_max_size = old.openssl_async_job_max_size
      ]_vars

====
